---- MODULE Spec2Model ----
(***************************************************************************)
(* The Java serialization stream decoder of src/src/parser.ts (class       *)
(* Parser) as a state machine.                                             *)
(*                                                                         *)
(* The recursive-descent parser is unfolded into an explicit stack of      *)
(* frames: every handler (parseXxx, content, annotations, values, ...) is  *)
(* one action, and a handler that calls content() in its middle is cut at  *)
(* that call into one action per segment.                                  *)
(*                                                                         *)
(* The input buffer is fixed lazily: `buf` holds the bytes the cursor has   *)
(* consumed so far and `eof` says whether the buffer ends there.  A read    *)
(* either draws its bytes from a small set or finds the buffer exhausted,  *)
(* so every behaviour is the run of the parser on one concrete buffer.     *)
(***************************************************************************)
EXTENDS Integers, Sequences, FiniteSets, TLC

VARIABLES
    buf,         \* this.buf: the bytes of the input known so far
    eof,         \* TRUE when Len(buf) is this.buf.length
    pos,         \* this.pos
    nextHandle,  \* this.nextHandle
    handles,     \* this.handles: a sparse array, index -> value
    contents,    \* this.contents
    magic,       \* this.magic once read (-1 while still the method)
    version,     \* this.version once read (-1 while still the method)
    heap,        \* the objects allocated by the parse, by identity
    stack,       \* the call stack of the constructor, innermost first
    ret,         \* the value the last completed call returned
    status,      \* "running", "done" (constructor returned), "error" (threw)
    err,         \* the error thrown
    registry,    \* post-processors installed on Parser.prototype
    items,       \* number of content type bytes decoded so far
    gen,         \* the family of inputs the buffer is drawn from
    phase,       \* 1 for the first Parser of the process, 2 for the second
    first,       \* the buffer and the outcome of the first Parser, once over
    reg          \* the last call of Parser.register and whether it threw

\* what no handler of a Parser touches
aux == <<phase, first, reg>>

vars == <<buf, eof, pos, nextHandle, handles, contents, magic, version, heap,
          stack, ret, status, err, registry, items, gen, aux>>

----------------------------------------------------------------------------
(* Bounds of the model *)

MaxLen == 64        \* longest buffer explored, in bytes
MaxFields == 1      \* most fields a class descriptor declares
MaxBlock == 2       \* longest declared block-data length
MaxArray == 2       \* longest declared array length

----------------------------------------------------------------------------
(* Program constants *)

HandleBase == 8257536        \* 0x7e0000
StreamMagic == 44269         \* 0xaced
StreamVersion == 5
TypeCodeBase == 112          \* 0x70

\* a table whose entry for 0x79 is wrong (the fault C10 must detect)
namesTypo == <<"Null", "Reference", "ClassDesc", "Object", "String", "Array",
               "Class", "BlockData", "EndBlockData", "Null", "BlockDataLong",
               "Exception", "LongString", "ProxyClassDesc", "Enum">>

names == <<"Null", "Reference", "ClassDesc", "Object", "String", "Array",
           "Class", "BlockData", "EndBlockData", "Reset", "BlockDataLong",
           "Exception", "LongString", "ProxyClassDesc", "Enum">>

\* an allow-list that also lets a String through (the fault C11 must detect)
ClassDescAllowsString ==
    {"ClassDesc", "ProxyClassDesc", "Null", "Reference", "String"}

ClassDescAllowed == {"ClassDesc", "ProxyClassDesc", "Null", "Reference"}

\* the messages of the errors the code throws
MsgPremature == "Premature end of input"
MsgMagic == "STREAM_MAGIC not found"
MsgVersion == "Only understand protocol version 5"
MsgUnknownType == "Don't know about type"
MsgNotAllowed == "not allowed here"
MsgNoHandler == "Don't know how to handle"
MsgLongString == "Can't handle more than 2^32 bytes in a string"
MsgExternal == "Can't parse version 1 external content"
MsgClassFlags == "Don't know how to deserialize class with flags"
MsgFieldType == "Don't know how to read field of type"
MsgTypeError == "TypeError"
MsgRangeError == "RangeError"

----------------------------------------------------------------------------
(* Characters (code units) and strings as sequences of code units *)

ChB == 66
ChC == 67
ChD == 68
ChF == 70
ChI == 73
ChJ == 74
ChL == 76
ChS == 83
ChZ == 90
ChBracket == 91
ChAt == 64

StrAt == <<ChAt>>                              \* "@"
StrClass == <<99, 108, 97, 115, 115>>          \* "class"
StrExtends == <<101, 120, 116, 101, 110, 100, 115>>   \* "extends"

HexDigits == <<48, 49, 50, 51, 52, 53, 54, 55,      \* "0" .. "7"
               56, 57, 97, 98, 99, 100, 101, 102>>  \* "8", "9", "a" .. "f"

----------------------------------------------------------------------------
(* Values *)

None == [t |-> "none"]      \* nothing recorded yet
Null == [t |-> "null"]
Undef == [t |-> "undefined"]
EndBlock == [t |-> "endBlock"]
Str(s) == [t |-> "string", s |-> s]
Num(n) == [t |-> "number", n |-> n]
Bool(b) == [t |-> "boolean", b |-> b]
Raw(kind, bytes) == [t |-> kind, bytes |-> bytes]
List(xs) == [t |-> "list", items |-> xs]
Obj(id) == [t |-> "object", id |-> id]

IsObj(v) == v.t = "object"
IsStr(v) == v.t = "string"

\* JavaScript truthiness of a value
Truthy(v) ==
    CASE v.t = "null" -> FALSE
      [] v.t = "undefined" -> FALSE
      [] v.t = "string" -> v.s # <<>>
      [] v.t = "number" -> v.n # 0
      [] v.t = "boolean" -> v.b
      [] OTHER -> TRUE

----------------------------------------------------------------------------
(* Byte decoding, as Buffer's readers do it *)

RECURSIVE Sum(_, _)
Sum(segs, k) == IF k = 0 THEN 0 ELSE segs[k] + Sum(segs, k - 1)

Zeros(n) == [i \in 1..n |-> 0]

UInt8At(b, p) == b[p + 1]
Int8At(b, p) == IF b[p + 1] >= 128 THEN b[p + 1] - 256 ELSE b[p + 1]
UInt16At(b, p) == b[p + 1] * 256 + b[p + 2]
Int16At(b, p) ==
    IF UInt16At(b, p) >= 32768 THEN UInt16At(b, p) - 65536 ELSE UInt16At(b, p)
\* readInt32BE: two's complement, computed without leaving 32 bits
Int32At(b, p) ==
    (IF b[p + 1] >= 128 THEN b[p + 1] - 256 ELSE b[p + 1]) * 16777216
    + b[p + 2] * 65536 + b[p + 3] * 256 + b[p + 4]
\* readUInt32BE, for the values below 2^31 the inputs are drawn from
UInt32At(b, p) == b[p + 1] * 16777216 + b[p + 2] * 65536 + b[p + 3] * 256 + b[p + 4]

\* buf.toString("hex", from, to): two lowercase digits per byte
HexOf(bytes) ==
    [i \in 1..(2 * Len(bytes)) |->
        IF i % 2 = 1 THEN HexDigits[(bytes[(i + 1) \div 2] \div 16) + 1]
                     ELSE HexDigits[(bytes[i \div 2] % 16) + 1]]

\* buf.toString("utf8", from, to) on the one-byte code points the inputs use
Utf8Of(bytes) == bytes

\* encodings used to write the inputs
U16(n) == <<n \div 256, n % 256>>
I32(n) ==
    IF n >= 0
    THEN <<n \div 16777216, (n \div 65536) % 256, (n \div 256) % 256, n % 256>>
    ELSE <<255, 255, 255, 256 + n>>      \* for -256 < n < 0

----------------------------------------------------------------------------
(* Maps (JavaScript objects used as dictionaries), keyed by strings *)

EmptyMap == <<>>
MapHas(m, k) == k \in DOMAIN m
MapSet(m, k, v) == [x \in (DOMAIN m) \cup {k} |-> IF x = k THEN v ELSE m[x]]
MapGet(m, k) == IF k \in DOMAIN m THEN m[k] ELSE Undef

----------------------------------------------------------------------------
(* The heap: one record per object the parse allocates *)

\* var res = {} in parseClassDesc, after res.name and res.serialVersionUID
\* (flags is -1 and the other properties undefined until assigned)
NewClassDesc(name, uid) ==
    [k |-> "class", name |-> name, serialVersionUID |-> uid, flags |-> -1,
     isEnum |-> FALSE, fields |-> <<>>, annotations |-> Undef, super |-> Undef]

\* the object parseObject builds: class and extends are defined non-writable;
\* props are the properties recursiveClassData assigns; groups records the
\* value classdata returned for each class, in call order
NewObjectDesc(cls) ==
    [k |-> "object", class |-> cls, extends |-> EmptyMap, props |-> EmptyMap,
     groups |-> <<>>]

NewArrayDesc(cls) ==
    [k |-> "array", class |-> cls, extends |-> EmptyMap, length |-> 0,
     elems |-> <<>>]

IsClassDesc(h, v) == IsObj(v) /\ h[v.id].k = "class"

\* new String(constant): the text of a string is the string; null and
\* undefined print as their names; other values are kept as String(v)
StringOf(h, v) ==
    CASE v.t = "string" -> v
      [] v.t = "null" -> Str(<<110, 117, 108, 108>>)
      [] v.t = "undefined" -> Str(<<117, 110, 100, 101, 102, 105, 110, 101, 100>>)
      [] IsObj(v) /\ h[v.id].k = "enum" -> h[v.id].text
      [] OTHER -> [t |-> "String()", of |-> v]

NewEnum(h, constant, clazz) ==
    [k |-> "enum", text |-> StringOf(h, constant), class |-> clazz,
     extends |-> EmptyMap]

\* cls.super for any value that is not null or undefined
SuperOf(h, v) == IF IsClassDesc(h, v) THEN h[v.id].super ELSE Undef

\* the calls recursiveClassData makes on the way down: cls, cls.super, ...
\* while the super is truthy; ok is FALSE when the chain never ends (the
\* recursion overflows the stack)
RECURSIVE SuperChain(_, _, _)
SuperChain(h, v, seen) ==
    IF IsObj(v) /\ v.id \in seen THEN [ok |-> FALSE, chain |-> <<>>]
    ELSE IF Truthy(SuperOf(h, v))
    THEN LET up == SuperChain(h, SuperOf(h, v),
                              IF IsObj(v) THEN seen \cup {v.id} ELSE seen)
         IN [ok |-> up.ok, chain |-> <<v>> \o up.chain]
    ELSE [ok |-> TRUE, chain |-> <<v>>]

Reverse(s) == [i \in 1..Len(s) |-> s[Len(s) + 1 - i]]

----------------------------------------------------------------------------
(* The handle table *)

NoHandles == <<>>

\* a faulty store that leaves the table as it was (the fault C20 must detect)
SetHandleDrops(h, idx, v) == h

\* this.handles[idx] = obj
SetHandle(h, idx, v) == [i \in (DOMAIN h) \cup {idx} |-> IF i = idx THEN v ELSE h[i]]

\* this.handles[idx], undefined for an index never assigned
GetHandle(h, idx) == IF idx \in DOMAIN h THEN h[idx] ELSE Undef

\* newHandle(obj): this.handles[this.nextHandle++] = obj
NewHandleIndex(nh) == nh

\* a faulty increment that skips an index (the fault C3 must detect)
NewHandleSkips(nh) == nh + 2
NewHandleNext(nh) == nh + 1

\* a faulty index taken after the increment (the fault C17 must detect)
DeferredIndexAfter(nh) == nh + 1

\* newDeferredHandle(): idx = this.nextHandle++; handles[idx] = null
DeferredIndex(nh) == nh
DeferredNext(nh) == nh + 1

----------------------------------------------------------------------------
(* Field readers: this["prim" + type] *)

PrimTypes == {ChB, ChC, ChD, ChF, ChI, ChJ, ChS, ChZ}
ContentTypes == {ChL, ChBracket}        \* primL and prim[ call content()

PrimLen(c) ==
    CASE c = ChB -> 1 [] c = ChC -> 2 [] c = ChD -> 8 [] c = ChF -> 4
      [] c = ChI -> 4 [] c = ChJ -> 8 [] c = ChS -> 2 [] c = ChZ -> 1

\* the value primX returns for the bytes at p
PrimValue(c, b, p) ==
    CASE c = ChB -> Num(Int8At(b, p))
      [] c = ChC -> Str(<<UInt16At(b, p)>>)
      [] c = ChD -> Raw("double", SubSeq(b, p + 1, p + 8))
      [] c = ChF -> Raw("float", SubSeq(b, p + 1, p + 4))
      [] c = ChI -> Num(Int32At(b, p))
      [] c = ChJ -> [t |-> "long", high |-> SubSeq(b, p + 1, p + 4),
                     low |-> SubSeq(b, p + 5, p + 8)]
      [] c = ChS -> Num(Int16At(b, p))
      [] c = ChZ -> Bool(Int8At(b, p) # 0)

----------------------------------------------------------------------------
(* The cursor *)

Top == Head(stack)
Running(op) == status = "running" /\ stack # <<>> /\ Top.op = op

NoError == [msg |-> "", arg |-> "", props |-> {}, pos |-> -1]

\* throw Error(msg + arg): a plain Error, no property attached
Throw(msg, arg) ==
    /\ status' = "error"
    /\ err' = [msg |-> msg, arg |-> arg, props |-> {}, pos |-> -1]
    /\ stack' = <<>>

\* step(len) past the end: the error carries buf and the advanced pos
ThrowPremature(newpos) ==
    /\ status' = "error"
    /\ err' = [msg |-> MsgPremature, arg |-> "", props |-> {"buf", "pos"},
               pos |-> newpos]
    /\ stack' = <<>>

\* a second Parser is given the buffer of the first: the bytes b it has
\* seen and whether they end the buffer (e) agree with what the first saw
Replays(b, e) ==
    phase = 2 =>
        /\ Len(b) <= Len(first.buf)
        /\ b = SubSeq(first.buf, 1, Len(b))
        /\ e => (first.eof /\ b = first.buf)

\* every step() of a handler segment succeeds and reads the bytes bs
ReadAll(bs) ==
    /\ ~eof
    /\ Len(buf) + Len(bs) <= MaxLen
    /\ buf' = buf \o bs
    /\ pos' = pos + Len(bs)
    /\ eof' = FALSE
    /\ Replays(buf', eof')

\* the first `cut` reads of a segment (of lengths segs, bytes bs) succeed and
\* the next one runs past the end of the buffer, which holds `extra` more
\* bytes than the reads that succeeded; a family that is not fine ends its
\* buffers only before a segment or right after a descriptor's handle
ReadShort(bs, segs, cut, extra) ==
    /\ cut < Len(segs)
    /\ segs[cut + 1] > 0
    /\ extra \in {0, segs[cut + 1] - 1}
    /\ gen.fine \/ (extra = 0 /\ cut \in {0, 3})
    /\ eof => (Sum(segs, cut) = 0 /\ extra = 0)
    /\ Len(buf) + Sum(segs, cut) + extra <= MaxLen
    /\ buf' = IF eof THEN buf ELSE buf \o SubSeq(bs, 1, Sum(segs, cut) + extra)
    /\ eof' = TRUE
    /\ Replays(buf', eof')
    /\ pos' = pos + Sum(segs, cut + 1)
    /\ ThrowPremature(pos')

\* return v to the caller
Return(v) ==
    /\ ret' = v
    /\ stack' = Tail(stack)

\* replace the running frame by the frames fs
Goto(fs) == stack' = fs \o Tail(stack)

\* a call of content(allowed); nonEmpty: the caller saw pos < buf.length
ContentFrame ==
    [op |-> "content", restricted |-> FALSE, allowed |-> {}, nonEmpty |-> FALSE]
TopContentFrame ==
    [op |-> "content", restricted |-> FALSE, allowed |-> {}, nonEmpty |-> TRUE]
ClassDescFrame ==
    [op |-> "content", restricted |-> TRUE, allowed |-> ClassDescAllowed,
     nonEmpty |-> FALSE]

\* this["parse" + name]
ParseOp ==
    [Null |-> "parseNull", Reference |-> "parseReference",
     ClassDesc |-> "parseClassDesc", Object |-> "parseObject",
     String |-> "parseString", Array |-> "parseArray", Class |-> "parseClass",
     BlockData |-> "parseBlockData", EndBlockData |-> "parseEndBlockData",
     BlockDataLong |-> "parseBlockDataLong", LongString |-> "parseLongString",
     Enum |-> "parseEnum"]

Total(cnt) == cnt.Null + cnt.Reference + cnt.ClassDesc + cnt.Object
              + cnt.String + cnt.Array + cnt.Class + cnt.BlockData
              + cnt.EndBlockData + cnt.BlockDataLong + cnt.LongString + cnt.Enum

NoItems == [n \in DOMAIN ParseOp |-> 0]

----------------------------------------------------------------------------
(* Parser.constructor *)

\* the test of magic(): this.magic == 0xaced
MagicOk(m) == m = StreamMagic

\* a faulty test that lets every version through (the fault C6 must detect)
VersionAny(v) == v = v

\* the test of version(): this.version == 5
VersionOk(v) == v = StreamVersion

\* this.magic()
Magic ==
    /\ Running("magic")
    /\ \/ \E bs \in gen.magics :
            /\ ReadAll(bs)
            /\ magic' = UInt16At(buf', pos)
            /\ IF ~MagicOk(magic')
               THEN Throw(MsgMagic, "")
               ELSE Goto(<<[op |-> "version"]>>) /\ UNCHANGED <<status, err>>
       \/ \E extra \in 0..1 :
            /\ ReadShort(Zeros(2), <<2>>, 0, extra)
            /\ UNCHANGED magic
    /\ UNCHANGED <<nextHandle, handles, contents, version, heap, ret, registry,
                   items, gen, aux>>

\* this.version()
Version ==
    /\ Running("version")
    /\ \/ \E bs \in gen.versions :
            /\ ReadAll(bs)
            /\ version' = UInt16At(buf', pos)
            /\ IF ~VersionOk(version')
               THEN Throw(MsgVersion, "")
               ELSE Goto(<<[op |-> "loop"]>>) /\ UNCHANGED <<status, err>>
       \/ \E extra \in 0..1 :
            /\ ReadShort(Zeros(2), <<2>>, 0, extra)
            /\ UNCHANGED version
    /\ UNCHANGED <<nextHandle, handles, contents, magic, heap, ret, registry,
                   items, gen, aux>>

\* while (this.pos < this.buf.length): one more content item, or the end
Loop ==
    /\ Running("loop")
    /\ \/ /\ ~eof                     \* pos < length: call content()
          /\ Len(contents) < gen.top
          /\ Total(items) < gen.total
          /\ Len(buf) < MaxLen
          /\ phase = 2 => Len(buf) < Len(first.buf)
          /\ Goto(<<TopContentFrame, [op |-> "push"]>>)
          /\ UNCHANGED <<eof, status>>
       \/ /\ eof' = TRUE              \* pos >= length: the constructor returns
          /\ Replays(buf, TRUE)
          /\ status' = "done"
          /\ stack' = <<>>
    /\ UNCHANGED <<buf, pos, nextHandle, handles, contents, magic, version,
                   heap, ret, err, registry, items, gen, aux>>

\* this.contents.push(<the value content() returned>)
Push ==
    /\ Running("push")
    /\ contents' = Append(contents, ret)
    /\ Goto(<<[op |-> "loop"]>>)
    /\ UNCHANGED <<buf, eof, pos, nextHandle, handles, magic, version, heap,
                   ret, status, err, registry, items, gen, aux>>

----------------------------------------------------------------------------
(* content(allowed) *)

NameOf(tc) == IF tc + 1 \in DOMAIN names THEN names[tc + 1] ELSE "undefined"

\* the type codes content() lets through its range check
TypeCodeInRange(tc) == ~(tc < 0 \/ tc > Len(names))

Content ==
    /\ Running("content")
    /\ \/ \E tb \in (IF Top.nonEmpty THEN gen.topBytes ELSE gen.typeBytes) :
            LET tc == tb - TypeCodeBase
                name == NameOf(tc)
            IN /\ ReadAll(<<tb>>)
               /\ name \in DOMAIN ParseOp =>
                      /\ items[name] < gen.max[name]
                      /\ Total(items) < gen.total
               /\ IF ~TypeCodeInRange(UInt8At(buf', pos) - TypeCodeBase)
                  THEN Throw(MsgUnknownType, "") /\ UNCHANGED items
                  ELSE IF Top.restricted /\ name \notin Top.allowed
                  THEN Throw(MsgNotAllowed, name) /\ UNCHANGED items
                  ELSE IF name \notin DOMAIN ParseOp
                  THEN Throw(MsgNoHandler, name) /\ UNCHANGED items
                  ELSE /\ Goto(<<[op |-> ParseOp[name]]>>)
                       /\ items' = [items EXCEPT ![name] = @ + 1]
                       /\ UNCHANGED <<status, err>>
       \/ /\ ~Top.nonEmpty
          /\ ReadShort(Zeros(1), <<1>>, 0, 0)
          /\ UNCHANGED items
    /\ UNCHANGED <<nextHandle, handles, contents, magic, version, heap, ret,
                   registry, gen, aux>>

----------------------------------------------------------------------------
(* The handlers without nested content *)

ParseNull ==
    /\ Running("parseNull")
    /\ Return(Null)
    /\ UNCHANGED <<buf, eof, pos, nextHandle, handles, contents, magic, version,
                   heap, status, err, registry, items, gen, aux>>

ParseEndBlockData ==
    /\ Running("parseEndBlockData")
    /\ Return(EndBlock)
    /\ UNCHANGED <<buf, eof, pos, nextHandle, handles, contents, magic, version,
                   heap, status, err, registry, items, gen, aux>>

\* the indices a Reference may carry: around the allocated range
RefInputs == {I32(i) : i \in {HandleBase - 1} \cup (HandleBase..nextHandle)}
                \cup {I32(0), I32(-1)}

\* return this.handles[this.readInt32()]
ParseReference ==
    /\ Running("parseReference")
    /\ \/ \E bs \in RefInputs :
            /\ ReadAll(bs)
            /\ Return(GetHandle(handles, Int32At(buf', pos)))
            /\ UNCHANGED <<status, err>>
       \/ \E extra \in {0, 3} :
            /\ ReadShort(Zeros(4), <<4>>, 0, extra)
            /\ UNCHANGED ret
    /\ UNCHANGED <<nextHandle, handles, contents, magic, version, heap,
                   registry, items, gen, aux>>

\* return this.newHandle(this.utf())
ParseString ==
    /\ Running("parseString")
    /\ \E s \in gen.strings :
         LET bs == U16(Len(s)) \o s IN
         \/ /\ ReadAll(bs)
            /\ LET len == UInt16At(buf', pos)
                   str == Str(Utf8Of(SubSeq(buf', pos + 3, pos + 2 + len)))
               IN /\ handles' = SetHandle(handles, NewHandleIndex(nextHandle), str)
                  /\ nextHandle' = NewHandleNext(nextHandle)
                  /\ Return(str)
            /\ UNCHANGED <<status, err>>
         \/ \E cut \in 0..1, extra \in 0..1 :
            /\ ReadShort(bs, <<2, Len(s)>>, cut, extra)
            /\ UNCHANGED <<nextHandle, handles, ret>>
    /\ UNCHANGED <<contents, magic, version, heap, registry, items, gen, aux>>

\* return this.newHandle(this.utfLong())
ParseLongString ==
    /\ Running("parseLongString")
    /\ \E hi \in gen.highWords, s \in gen.strings :
         LET bs == hi \o I32(Len(s)) \o s IN
         \/ /\ hi = Zeros(4)
            /\ ReadAll(bs)
            /\ LET len == UInt32At(buf', pos + 4)
                   str == Str(Utf8Of(SubSeq(buf', pos + 9, pos + 8 + len)))
               IN /\ handles' = SetHandle(handles, NewHandleIndex(nextHandle), str)
                  /\ nextHandle' = NewHandleNext(nextHandle)
                  /\ Return(str)
            /\ UNCHANGED <<status, err>>
         \/ /\ hi # Zeros(4)          \* if (this.readUInt32() !== 0) throw
            /\ ReadAll(hi)
            /\ Throw(MsgLongString, "")
            /\ UNCHANGED <<nextHandle, handles, ret>>
         \/ \E cut \in 0..2, extra \in {0, 3} :
            /\ hi = Zeros(4)
            /\ ReadShort(bs, <<4, 4, Len(s)>>, cut, extra)
            /\ UNCHANGED <<nextHandle, handles, ret>>
    /\ UNCHANGED <<contents, magic, version, heap, registry, items, gen, aux>>

\* len bytes of block data follow, of which the buffer holds `have`:
\* res = buf.slice(pos, pos + len) is clipped to the buffer, pos += len is not
BlockBody(lenBytes, len, have) ==
    /\ ~eof
    /\ Len(buf) + Len(lenBytes) + have <= MaxLen
    /\ buf' = buf \o lenBytes \o Zeros(have)
    /\ eof' = (have < len)
    /\ Replays(buf', eof')

SliceEnd(b, to) == IF to > Len(b) THEN Len(b) ELSE to

ParseBlockData ==
    /\ Running("parseBlockData")
    /\ \/ \E len \in 0..MaxBlock : \E have \in 0..len :
            /\ BlockBody(<<len>>, len, have)
            /\ LET n == UInt8At(buf', pos)
               IN /\ pos' = pos + 1 + n
                  /\ Return(Raw("buffer",
                                SubSeq(buf', pos + 2, SliceEnd(buf', pos + 1 + n))))
            /\ UNCHANGED <<status, err>>
       \/ /\ ReadShort(Zeros(1), <<1>>, 0, 0)
          /\ UNCHANGED ret
    /\ UNCHANGED <<nextHandle, handles, contents, magic, version, heap,
                   registry, items, gen, aux>>

ParseBlockDataLong ==
    /\ Running("parseBlockDataLong")
    /\ \/ \E len \in 0..MaxBlock : \E have \in 0..len :
            /\ BlockBody(I32(len), len, have)
            /\ LET n == UInt32At(buf', pos)
               IN /\ pos' = pos + 4 + n
                  /\ Return(Raw("buffer",
                                SubSeq(buf', pos + 5, SliceEnd(buf', pos + 4 + n))))
            /\ UNCHANGED <<status, err>>
       \/ \E extra \in {0, 3} :
            /\ ReadShort(Zeros(4), <<4>>, 0, extra)
            /\ UNCHANGED ret
    /\ UNCHANGED <<nextHandle, handles, contents, magic, version, heap,
                   registry, items, gen, aux>>

----------------------------------------------------------------------------
(* annotations(allowed): content items up to the endBlock *)

Annotations ==
    /\ Running("annotations")
    /\ Goto(<<ContentFrame, [op |-> "annotationsLoop", acc |-> <<>>]>>)
    /\ UNCHANGED <<buf, eof, pos, nextHandle, handles, contents, magic, version,
                   heap, ret, status, err, registry, items, gen, aux>>

AnnotationsLoop ==
    /\ Running("annotationsLoop")
    /\ IF ret = EndBlock
       THEN Return(List(Top.acc))
       ELSE /\ Goto(<<ContentFrame,
                     [op |-> "annotationsLoop", acc |-> Append(Top.acc, ret)]>>)
            /\ UNCHANGED ret
    /\ UNCHANGED <<buf, eof, pos, nextHandle, handles, contents, magic, version,
                   heap, status, err, registry, items, gen, aux>>

----------------------------------------------------------------------------
(* parseClassDesc and fieldDesc *)

\* name, serialVersionUID, newHandle, flags, isEnum, count, fields = []
ParseClassDesc ==
    /\ Running("parseClassDesc")
    /\ \E nm \in gen.classNames, uid \in gen.uids, fl \in gen.flags,
          cnt \in gen.counts :
         LET bs == U16(Len(nm)) \o nm \o uid \o <<fl>> \o U16(cnt)
             segs == <<2, Len(nm), 8, 1, 2>>
             id == Len(heap) + 1
             len == UInt16At(buf', pos)
             cls == NewClassDesc(Utf8Of(SubSeq(buf', pos + 3, pos + 2 + len)),
                                 HexOf(SubSeq(buf', pos + 3 + len, pos + 10 + len)))
             flags == UInt8At(buf', pos + 10 + len)
         IN \/ /\ ReadAll(bs)
               /\ heap' = Append(heap, [cls EXCEPT !.flags = flags,
                                                   !.isEnum = (flags \div 16) % 2 = 1])
               /\ handles' = SetHandle(handles, NewHandleIndex(nextHandle), Obj(id))
               /\ nextHandle' = NewHandleNext(nextHandle)
               /\ Goto(<<[op |-> "fieldLoop", cls |-> id,
                          count |-> UInt16At(buf', pos + 11 + len), i |-> 0]>>)
               /\ UNCHANGED <<status, err>>
            \/ \E cut \in 0..2, extra \in {0, 1, 7} :
               /\ ReadShort(bs, segs, cut, extra)
               /\ UNCHANGED <<heap, handles, nextHandle>>
            \/ \E cut \in 3..4, extra \in 0..1 :
               /\ ReadShort(bs, segs, cut, extra)
               /\ heap' = Append(heap,
                             IF cut = 3 THEN cls
                             ELSE [cls EXCEPT !.flags = flags,
                                              !.isEnum = (flags \div 16) % 2 = 1])
               /\ handles' = SetHandle(handles, NewHandleIndex(nextHandle), Obj(id))
               /\ nextHandle' = NewHandleNext(nextHandle)
    /\ UNCHANGED <<contents, magic, version, ret, registry, items, gen, aux>>

\* for (i < count) res.fields.push(this.fieldDesc()); then the annotations
FieldLoop ==
    /\ Running("fieldLoop")
    /\ IF Top.i < Top.count
       THEN \E ft \in gen.fieldTypes, fn \in gen.fieldNames :
              LET bs == <<ft>> \o U16(Len(fn)) \o fn
                  type == UInt8At(buf', pos)      \* String.fromCharCode
                  len == UInt16At(buf', pos + 1)
                  name == Utf8Of(SubSeq(buf', pos + 4, pos + 3 + len))
              IN \/ /\ ReadAll(bs)
                    /\ IF type \in {ChBracket, ChL}
                       THEN /\ Goto(<<ContentFrame,
                                     [op |-> "fieldClassName", cls |-> Top.cls,
                                      count |-> Top.count, i |-> Top.i,
                                      type |-> type, name |-> name]>>)
                            /\ UNCHANGED heap
                       ELSE /\ heap' = [heap EXCEPT ![Top.cls].fields =
                                          Append(@, [type |-> type, name |-> name,
                                                     className |-> Undef])]
                            /\ Goto(<<[Top EXCEPT !.i = @ + 1]>>)
                    /\ UNCHANGED <<status, err>>
                 \/ \E cut \in 0..2, extra \in 0..1 :
                    /\ ReadShort(bs, <<1, 2, Len(fn)>>, cut, extra)
                    /\ UNCHANGED heap
       ELSE /\ Goto(<<[op |-> "annotations"],
                     [op |-> "classAnnotations", cls |-> Top.cls]>>)
            /\ UNCHANGED <<buf, eof, pos, heap, status, err>>
    /\ UNCHANGED <<nextHandle, handles, contents, magic, version, ret, registry,
                   items, gen, aux>>

\* res.className = this.content(); the field is pushed
FieldClassName ==
    /\ Running("fieldClassName")
    /\ heap' = [heap EXCEPT ![Top.cls].fields =
                  Append(@, [type |-> Top.type, name |-> Top.name,
                             className |-> ret])]
    /\ Goto(<<[op |-> "fieldLoop", cls |-> Top.cls, count |-> Top.count,
               i |-> Top.i + 1]>>)
    /\ UNCHANGED <<buf, eof, pos, nextHandle, handles, contents, magic, version,
                   ret, status, err, registry, items, gen, aux>>

\* res.annotations = <annotations()>; then this.classDesc() for the super
ClassAnnotations ==
    /\ Running("classAnnotations")
    /\ heap' = [heap EXCEPT ![Top.cls].annotations = ret]
    /\ Goto(<<ClassDescFrame, [op |-> "classSuper", cls |-> Top.cls]>>)
    /\ UNCHANGED <<buf, eof, pos, nextHandle, handles, contents, magic, version,
                   ret, status, err, registry, items, gen, aux>>

\* res.super = <classDesc()>; return res
ClassSuper ==
    /\ Running("classSuper")
    /\ heap' = [heap EXCEPT ![Top.cls].super = ret]
    /\ Return(Obj(Top.cls))
    /\ UNCHANGED <<buf, eof, pos, nextHandle, handles, contents, magic, version,
                   status, err, registry, items, gen, aux>>

----------------------------------------------------------------------------
(* parseClass *)

ParseClass ==
    /\ Running("parseClass")
    /\ Goto(<<ClassDescFrame, [op |-> "classHandle"]>>)
    /\ UNCHANGED <<buf, eof, pos, nextHandle, handles, contents, magic, version,
                   heap, ret, status, err, registry, items, gen, aux>>

\* return this.newHandle(<classDesc()>)
ClassHandle ==
    /\ Running("classHandle")
    /\ handles' = SetHandle(handles, NewHandleIndex(nextHandle), ret)
    /\ nextHandle' = NewHandleNext(nextHandle)
    /\ Return(ret)
    /\ UNCHANGED <<buf, eof, pos, contents, magic, version, heap, status, err,
                   registry, items, gen, aux>>

----------------------------------------------------------------------------
(* parseObject, recursiveClassData, classdata, values *)

ParseObject ==
    /\ Running("parseObject")
    /\ Goto(<<ClassDescFrame, [op |-> "objectClass"]>>)
    /\ UNCHANGED <<buf, eof, pos, nextHandle, handles, contents, magic, version,
                   heap, ret, status, err, registry, items, gen, aux>>

\* res = {class: <classDesc()>, extends: {}}; newHandle(res); then the descent
\* of recursiveClassData(res.class, res) along cls.super
ObjectClass ==
    /\ Running("objectClass")
    /\ LET id == Len(heap) + 1
           sc == SuperChain(heap, ret, {})
       IN /\ heap' = Append(heap, NewObjectDesc(ret))
          /\ handles' = SetHandle(handles, NewHandleIndex(nextHandle), Obj(id))
          /\ nextHandle' = NewHandleNext(nextHandle)
          /\ IF ret.t \in {"null", "undefined"}
             THEN Throw(MsgTypeError, "super")       \* cls.super of null
             ELSE IF ~sc.ok
             THEN Throw(MsgRangeError, "stack")      \* the recursion never ends
             ELSE /\ Goto(<<[op |-> "classdata", obj |-> id,
                            chain |-> Reverse(sc.chain)]>>)
                  /\ UNCHANGED <<status, err>>
    /\ UNCHANGED <<buf, eof, pos, contents, magic, version, ret, registry,
                   items, gen, aux>>

\* a faulty copy that keeps a property already set by an ancestor (the
\* fault C4 must detect)
FlattenKeepsOld(props, fields) ==
    [n \in (DOMAIN props) \cup (DOMAIN fields) |->
        IF n \in DOMAIN props THEN props[n] ELSE fields[n]]

\* the flattened view after for (name in fields) obj[name] = fields[name]
Flatten(props, fields) ==
    [n \in (DOMAIN props) \cup (DOMAIN fields) |->
        IF n \in DOMAIN fields THEN fields[n] ELSE props[n]]

\* obj.extends[cls.name] = fields
Extend(extends, name, fields) == MapSet(extends, name, fields)

\* the rest of recursiveClassData once classdata(cls) returned `fields`; the
\* properties class and extends of obj are not writable, and the file is
\* in strict mode; after the most derived class parseObject returns
StoreGroup(fields) ==
    LET obj == Top.obj
        cls == Head(Top.chain)
        c == heap[cls.id]
    IN IF (DOMAIN fields) \cap {StrClass, StrExtends} # {}
       THEN /\ heap' = [heap EXCEPT ![obj].extends = Extend(@, c.name, fields)]
            /\ Throw(MsgTypeError, "read only")
            /\ UNCHANGED ret
       ELSE /\ heap' = [heap EXCEPT
                          ![obj].extends = Extend(@, c.name, fields),
                          ![obj].props = Flatten(@, fields),
                          ![obj].groups = Append(@, [cls |-> cls.id,
                                                     fields |-> fields])]
            /\ IF Tail(Top.chain) = <<>>
               THEN Return(Obj(obj))
               ELSE /\ Goto(<<[op |-> "classdata", obj |-> obj,
                              chain |-> Tail(Top.chain)]>>)
                    /\ UNCHANGED ret
            /\ UNCHANGED <<status, err>>

\* this[cls.name + "@" + cls.serialVersionUID]
PostProcKey(c) == c.name \o StrAt \o c.serialVersionUID

\* the low nibble classdata switches on
LowNibble(flags) == flags % 16

\* a faulty switch that reads the declared fields of an externalizable
\* class as well (the fault C21 must detect)
ReadsValuesExternal(nib) == nib \in {2, 3, 12}

\* case 0x02 and case 0x03 of classdata begin with this.values(cls)
ReadsValues(nib) == nib \in {2, 3}

\* classdata(cls) up to its first read
ClassData ==
    /\ Running("classdata")
    /\ LET cls == Head(Top.chain) IN
       IF ~IsClassDesc(heap, cls)
       THEN Throw(MsgTypeError, "flags")     \* cls.flags.toString of undefined
       ELSE LET nib == LowNibble(heap[cls.id].flags) IN
            IF ReadsValues(nib)
            THEN /\ Goto(<<[op |-> "values", obj |-> Top.obj,
                            chain |-> Top.chain, i |-> 1, vals |-> EmptyMap]>>)
                 /\ UNCHANGED <<status, err>>
            ELSE IF nib = 4
            THEN Throw(MsgExternal, "")
            ELSE IF nib = 12
            THEN /\ Goto(<<[op |-> "annotations"],
                           [op |-> "dataAnnotations", obj |-> Top.obj,
                            chain |-> Top.chain, res |-> EmptyMap]>>)
                 /\ UNCHANGED <<status, err>>
            ELSE Throw(MsgClassFlags, "")
    /\ UNCHANGED <<buf, eof, pos, nextHandle, handles, contents, magic, version,
                   heap, ret, registry, items, gen, aux>>

\* the bytes a primitive of type c is drawn from
PrimInputs(c) == {Zeros(PrimLen(c)), [i \in 1..PrimLen(c) |-> 255]}

PrimSegs(c) == IF c = ChJ THEN <<4, 4>> ELSE <<PrimLen(c)>>

\* values(cls): one field per step
Values ==
    /\ Running("values")
    /\ LET c == heap[Head(Top.chain).id] IN
       IF Top.i > Len(c.fields)
       THEN IF LowNibble(c.flags) = 2
            THEN /\ StoreGroup(Top.vals)
                 /\ UNCHANGED <<buf, eof, pos>>
            ELSE /\ Goto(<<[op |-> "annotations"],
                           [op |-> "dataAnnotations", obj |-> Top.obj,
                            chain |-> Top.chain, res |-> Top.vals]>>)
                 /\ UNCHANGED <<buf, eof, pos, heap, ret, status, err>>
       ELSE LET field == c.fields[Top.i] IN
            IF field.type \in PrimTypes
            THEN /\ \/ \E bs \in PrimInputs(field.type) :
                         /\ ReadAll(bs)
                         /\ Goto(<<[Top EXCEPT !.i = @ + 1,
                                               !.vals = MapSet(@, field.name,
                                                   PrimValue(field.type, buf', pos))]>>)
                         /\ UNCHANGED <<status, err>>
                    \/ \E cut \in 0..1, extra \in {0, 3, PrimLen(field.type) - 1} :
                         ReadShort(Zeros(PrimLen(field.type)), PrimSegs(field.type),
                                   cut, extra)
                 /\ UNCHANGED <<heap, ret>>
            ELSE IF field.type \in ContentTypes
            THEN /\ Goto(<<ContentFrame,
                           [op |-> "valueContent", obj |-> Top.obj,
                            chain |-> Top.chain, i |-> Top.i, vals |-> Top.vals]>>)
                 /\ UNCHANGED <<buf, eof, pos, heap, ret, status, err>>
            ELSE /\ Throw(MsgFieldType, "")
                 /\ UNCHANGED <<buf, eof, pos, heap, ret>>
    /\ UNCHANGED <<nextHandle, handles, contents, magic, version, registry,
                   items, gen, aux>>

\* vals[field.name] = <content()>
ValueContent ==
    /\ Running("valueContent")
    /\ LET c == heap[Head(Top.chain).id] IN
       Goto(<<[op |-> "values", obj |-> Top.obj, chain |-> Top.chain,
               i |-> Top.i + 1,
               vals |-> MapSet(Top.vals, c.fields[Top.i].name, ret)]>>)
    /\ UNCHANGED <<buf, eof, pos, nextHandle, handles, contents, magic, version,
                   heap, ret, status, err, registry, items, gen, aux>>

StrList == <<108, 105, 115, 116>>       \* "list"

\* a registered post-processor: its result replaces the group
PostProc(fn, c, res, data) == MapSet(EmptyMap, StrList, data)

\* a faulty test that also calls the post-processor of an externalizable
\* class (the fault C18 must detect)
InvokesAnyFlags(c) == PostProcKey(c) \in DOMAIN registry

\* case 0x03 of classdata: if (postproc) res = postproc.call(...)
Invokes(c) == LowNibble(c.flags) = 3 /\ PostProcKey(c) \in DOMAIN registry

\* classdata after annotations(): res["@"] = data, the post-processor for
\* flags 0x03; {"@": data} for 0x0c
DataAnnotations ==
    /\ Running("dataAnnotations")
    /\ LET c == heap[Head(Top.chain).id]
           res == MapSet(Top.res, StrAt, ret)
       IN IF Invokes(c)
          THEN StoreGroup(PostProc(registry[PostProcKey(c)], c, res, ret))
          ELSE IF LowNibble(c.flags) = 3
          THEN StoreGroup(res)
          ELSE StoreGroup(MapSet(EmptyMap, StrAt, ret))
    /\ UNCHANGED <<buf, eof, pos, nextHandle, handles, contents, magic, version,
                   registry, items, gen, aux>>

----------------------------------------------------------------------------
(* parseArray *)

ParseArray ==
    /\ Running("parseArray")
    /\ Goto(<<ClassDescFrame, [op |-> "arrayClass"]>>)
    /\ UNCHANGED <<buf, eof, pos, nextHandle, handles, contents, magic, version,
                   heap, ret, status, err, registry, items, gen, aux>>

\* classDesc.name.charAt(1), "" past the end of the name
ElementType(name) == IF Len(name) >= 2 THEN name[2] ELSE 0

ArrayLenInputs == {I32(n) : n \in 0..MaxArray} \cup {I32(-1)}

\* res = [] with class and extends; newHandle(res); len = readInt32();
\* handler = primHandler(classDesc.name.charAt(1)); res.length = len
ArrayClass ==
    /\ Running("arrayClass")
    /\ LET id == Len(heap) + 1 IN
       /\ handles' = SetHandle(handles, NewHandleIndex(nextHandle), Obj(id))
       /\ nextHandle' = NewHandleNext(nextHandle)
       /\ \/ \E bs \in ArrayLenInputs :
               LET len == Int32At(buf', pos)
                   type == ElementType(heap[ret.id].name)
               IN /\ ReadAll(bs)
                  /\ IF ~IsClassDesc(heap, ret)
                     THEN /\ Throw(MsgTypeError, "name")
                          /\ heap' = Append(heap, NewArrayDesc(ret))
                     ELSE IF type \notin PrimTypes \cup ContentTypes
                     THEN /\ Throw(MsgFieldType, "")
                          /\ heap' = Append(heap, NewArrayDesc(ret))
                     ELSE IF len < 0
                     THEN /\ Throw(MsgRangeError, "length")
                          /\ heap' = Append(heap, NewArrayDesc(ret))
                     ELSE /\ heap' = Append(heap,
                                       [NewArrayDesc(ret) EXCEPT !.length = len])
                          /\ Goto(<<[op |-> "arrayElems", arr |-> id, i |-> 0,
                                     len |-> len, type |-> type]>>)
                          /\ UNCHANGED <<status, err>>
          \/ \E extra \in {0, 3} :
               /\ ReadShort(Zeros(4), <<4>>, 0, extra)
               /\ heap' = Append(heap, NewArrayDesc(ret))
    /\ UNCHANGED <<contents, magic, version, ret, registry, items, gen, aux>>

\* for (i < len) res[i] = handler.call(this); return res
ArrayElems ==
    /\ Running("arrayElems")
    /\ IF Top.i >= Top.len
       THEN /\ Return(Obj(Top.arr))
            /\ UNCHANGED <<buf, eof, pos, heap, status, err>>
       ELSE IF Top.type \in PrimTypes
       THEN /\ \/ \E bs \in PrimInputs(Top.type) :
                    /\ ReadAll(bs)
                    /\ heap' = [heap EXCEPT ![Top.arr].elems =
                                  Append(@, PrimValue(Top.type, buf', pos))]
                    /\ Goto(<<[Top EXCEPT !.i = @ + 1]>>)
                    /\ UNCHANGED <<status, err>>
               \/ \E cut \in 0..1, extra \in {0, 3, PrimLen(Top.type) - 1} :
                    /\ ReadShort(Zeros(PrimLen(Top.type)), PrimSegs(Top.type),
                                 cut, extra)
                    /\ UNCHANGED heap
            /\ UNCHANGED ret
       ELSE /\ Goto(<<ContentFrame, [Top EXCEPT !.op = "arrayElemContent"]>>)
            /\ UNCHANGED <<buf, eof, pos, heap, ret, status, err>>
    /\ UNCHANGED <<nextHandle, handles, contents, magic, version, registry,
                   items, gen, aux>>

\* res[i] = <content()>
ArrayElemContent ==
    /\ Running("arrayElemContent")
    /\ heap' = [heap EXCEPT ![Top.arr].elems = Append(@, ret)]
    /\ Goto(<<[Top EXCEPT !.op = "arrayElems", !.i = @ + 1]>>)
    /\ UNCHANGED <<buf, eof, pos, nextHandle, handles, contents, magic, version,
                   ret, status, err, registry, items, gen, aux>>

----------------------------------------------------------------------------
(* parseEnum *)

ParseEnum ==
    /\ Running("parseEnum")
    /\ Goto(<<ClassDescFrame, [op |-> "enumClass"]>>)
    /\ UNCHANGED <<buf, eof, pos, nextHandle, handles, contents, magic, version,
                   heap, ret, status, err, registry, items, gen, aux>>

\* clazz = <classDesc()>; deferredHandle = this.newDeferredHandle()
EnumClass ==
    /\ Running("enumClass")
    /\ handles' = SetHandle(handles, DeferredIndex(nextHandle), Null)
    /\ nextHandle' = DeferredNext(nextHandle)
    /\ Goto(<<ContentFrame, [op |-> "enumConstant", clazz |-> ret,
                             idx |-> DeferredIndex(nextHandle)]>>)
    /\ UNCHANGED <<buf, eof, pos, contents, magic, version, heap, ret, status,
                   err, registry, items, gen, aux>>

\* res = new String(<content()>) with class and extends; deferredHandle(res)
EnumConstant ==
    /\ Running("enumConstant")
    /\ LET id == Len(heap) + 1 IN
       /\ heap' = Append(heap, NewEnum(heap, ret, Top.clazz))
       /\ handles' = SetHandle(handles, Top.idx, Obj(id))
       /\ Return(Obj(id))
    /\ UNCHANGED <<buf, eof, pos, nextHandle, contents, magic, version, status,
                   err, registry, items, gen, aux>>

----------------------------------------------------------------------------
(* The inputs *)

\* Every buffer is drawn from one of a few families.  A family fixes the
\* type bytes that start a top-level item (topBytes) and a nested item
\* (typeBytes), how many items of each kind (max) and in all (total) the
\* buffer holds, how many of them at the top level (top), and the values the
\* other reads are drawn from.

NameA == <<65>>                 \* "A"
NameB == <<ChB>>
NameArrI == <<ChBracket, ChI>>
NameArrL == <<ChBracket, ChL>>
FieldA == <<97>>                \* "a"
TypeX == <<88>>                 \* "X", no field type
Uid0 == Zeros(8)
Uid1 == <<18, 52, 86, 120, 154, 188, 222, 240>>

TB(name) == TypeCodeBase - 1 + CHOOSE i \in DOMAIN names : names[i] = name
TBs(ns) == {TB(n) : n \in ns}
Only(ks) == [n \in DOMAIN ParseOp |-> IF n \in DOMAIN ks THEN ks[n] ELSE 0]

Base ==
    [magics |-> {U16(StreamMagic)},
     versions |-> {U16(StreamVersion)},
     topBytes |-> {},
     typeBytes |-> {},
     max |-> NoItems,
     total |-> 0,
     top |-> 1,
     strings |-> {FieldA},
     highWords |-> {Zeros(4)},
     classNames |-> {NameA},
     uids |-> {Uid0},
     flags |-> {2},
     counts |-> {0},
     fieldTypes |-> {ChI},
     fieldNames |-> {FieldA},
     fine |-> FALSE,
     registry |-> EmptyMap]

\* prologues of every kind, then items that need no class descriptor
Flat ==
    [Base EXCEPT
       !.magics = {U16(StreamMagic), U16(StreamMagic - 1), Zeros(2)},
       !.versions = {U16(StreamVersion), U16(StreamVersion - 1), U16(1280)},
       !.topBytes = (TypeCodeBase - 1)..(TypeCodeBase + 15),
       !.max = Only([Null |-> 1, Reference |-> 2, String |-> 2, LongString |-> 1,
                     BlockData |-> 1, BlockDataLong |-> 1, EndBlockData |-> 1]),
       !.total = 3,
       !.top = 3,
       !.strings = {<<>>, FieldA},
       !.highWords = {Zeros(4), <<0, 0, 0, 1>>},
       !.fine = TRUE]

\* class descriptors, their fields, annotations and supers
Descriptors ==
    [Base EXCEPT
       !.topBytes = TBs({"ClassDesc", "Class"}),
       !.typeBytes = TBs({"ClassDesc", "Null", "Reference", "EndBlockData",
                          "String", "ProxyClassDesc"}) \cup {TypeCodeBase + 15},
       !.max = Only([ClassDesc |-> 2, Class |-> 1, Reference |-> 1, Null |-> 2,
                     EndBlockData |-> 2, String |-> 1]),
       !.total = 5,
       !.flags = {0, 2},
       !.counts = 0..MaxFields,
       !.fieldTypes = {ChI, ChL}]

\* objects of one class or of a class and its super
Objects ==
    [Base EXCEPT
       !.topBytes = TBs({"Object"}),
       !.typeBytes = TBs({"Object", "ClassDesc", "Null", "Reference",
                          "EndBlockData"}),
       !.max = Only([Object |-> 2, ClassDesc |-> 2, Null |-> 1, Reference |-> 1,
                     EndBlockData |-> 2]),
       !.total = 8,
       !.classNames = {NameA, NameB},
       !.counts = 0..MaxFields]

\* one object: every flag nibble
ClassData0 ==
    [Base EXCEPT
       !.topBytes = TBs({"Object"}),
       !.typeBytes = TBs({"ClassDesc", "Null", "EndBlockData", "String"}),
       !.max = Only([Object |-> 1, ClassDesc |-> 1, Null |-> 1,
                     EndBlockData |-> 2, String |-> 1]),
       !.total = 6,
       !.flags = {0, 2, 3, 4, 12},
       !.counts = 0..MaxFields,
       !.fieldNames = {FieldA, StrAt}]

\* the same with a post-processor registered for the class
ClassData1 ==
    [ClassData0 EXCEPT
       !.flags = {2, 3, 12},
       !.uids = {Uid0, Uid1},
       !.fieldNames = {FieldA},
       !.registry = [k \in {NameA \o StrAt \o HexOf(Uid1)} |-> "list"]]

\* one object: every field type
Primitives ==
    [Base EXCEPT
       !.topBytes = TBs({"Object"}),
       !.typeBytes = TBs({"ClassDesc", "Null", "EndBlockData", "String"}),
       !.max = Only([Object |-> 1, ClassDesc |-> 1, Null |-> 2,
                     EndBlockData |-> 1, String |-> 1]),
       !.total = 6,
       !.counts = {1},
       !.fieldTypes = PrimTypes \cup ContentTypes \cup {Head(TypeX)},
       !.fieldNames = {FieldA, StrClass}]

\* arrays of primitives and of references
Arrays ==
    [Base EXCEPT
       !.topBytes = TBs({"Array"}),
       !.typeBytes = TBs({"ClassDesc", "Null", "Reference", "EndBlockData",
                          "String", "Array"}),
       !.max = Only([Array |-> 2, ClassDesc |-> 1, Null |-> 1, Reference |-> 1,
                     EndBlockData |-> 1, String |-> 1]),
       !.total = 6,
       !.classNames = {NameArrI, NameArrL, NameA \o <<ChI>>, NameA}]

\* enum constants
Enums ==
    [Base EXCEPT
       !.topBytes = TBs({"Enum", "Reference"}),
       !.typeBytes = TBs({"ClassDesc", "Null", "Reference", "EndBlockData",
                          "String"}),
       !.max = Only([Enum |-> 1, ClassDesc |-> 1, Null |-> 1, Reference |-> 2,
                     EndBlockData |-> 1, String |-> 1]),
       !.total = 6,
       !.top = 2,
       !.flags = {18}]

Families == {Flat, Descriptors, Objects, ClassData0, ClassData1, Primitives, Arrays, Enums}

----------------------------------------------------------------------------

Init ==
    /\ gen \in Families
    /\ buf = <<>>
    /\ eof = FALSE
    /\ pos = 0
    /\ nextHandle = HandleBase
    /\ handles = NoHandles
    /\ contents = <<>>
    /\ magic = -1
    /\ version = -1
    /\ heap = <<>>
    /\ stack = <<[op |-> "magic"]>>
    /\ ret = Undef
    /\ status = "running"
    /\ err = NoError
    /\ registry = gen.registry
    /\ phase = 1
    /\ first = None
    /\ reg = None
    /\ items = NoItems

Next ==
    \/ Magic
    \/ Version
    \/ Loop
    \/ Push
    \/ Content
    \/ ParseNull
    \/ ParseEndBlockData
    \/ ParseReference
    \/ ParseString
    \/ ParseLongString
    \/ ParseBlockData
    \/ ParseBlockDataLong
    \/ Annotations
    \/ AnnotationsLoop
    \/ ParseClassDesc
    \/ FieldLoop
    \/ FieldClassName
    \/ ClassAnnotations
    \/ ClassSuper
    \/ ParseClass
    \/ ClassHandle
    \/ ParseObject
    \/ ObjectClass
    \/ ClassData
    \/ Values
    \/ ValueContent
    \/ DataAnnotations
    \/ ParseArray
    \/ ArrayClass
    \/ ArrayElems
    \/ ArrayElemContent
    \/ ParseEnum
    \/ EnumClass
    \/ EnumConstant

Spec == Init /\ [][Next]_vars

----------------------------------------------------------------------------
(* Two Parsers in one process, and Parser.register between them *)

\* the test of register(): assert.strictEqual(serialVersionUID.length, 16)
UidAccepted(uid) == Len(uid) = 16

\* the arguments register() is called with: a hexadecimal UID, one of 16
\* characters that are no hexadecimal digits, and one of 15 digits
RegUids == {HexOf(Uid0), HexOf(Uid1), [i \in 1..16 |-> 122],
            SubSeq(HexOf(Uid0), 1, 15)}

\* static register(className, serialVersionUID, parser), called once the
\* first Parser is over:
\* Parser.prototype[className + "@" + serialVersionUID] = parser
Register ==
    /\ phase = 1
    /\ status \in {"done", "error"}
    /\ reg = None
    /\ \E className \in {NameA, NameB}, uid \in RegUids, parser \in {"list"} :
         IF UidAccepted(uid)
         THEN /\ registry' = MapSet(registry, className \o StrAt \o uid, parser)
              /\ reg' = [name |-> className, uid |-> uid, fn |-> parser,
                         threw |-> FALSE]
         ELSE /\ registry' = registry
              /\ reg' = [name |-> className, uid |-> uid, fn |-> parser,
                         threw |-> TRUE]
    /\ UNCHANGED <<buf, eof, pos, nextHandle, handles, contents, magic, version,
                   heap, stack, ret, status, err, items, gen, phase, first>>

\* what a Parser leaves to its caller: the contents, or the error
Outcome ==
    [status |-> status, err |-> err, contents |-> contents, heap |-> heap]

\* new Parser(buf) a second time, on the buffer of the first
Restart ==
    /\ phase = 1
    /\ status \in {"done", "error"}
    /\ phase' = 2
    /\ first' = [buf |-> buf, eof |-> eof, outcome |-> Outcome]
    /\ buf' = <<>>
    /\ eof' = FALSE
    /\ pos' = 0
    /\ nextHandle' = HandleBase
    /\ handles' = NoHandles
    /\ contents' = <<>>
    /\ magic' = -1
    /\ version' = -1
    /\ heap' = <<>>
    /\ stack' = <<[op |-> "magic"]>>
    /\ ret' = Undef
    /\ status' = "running"
    /\ err' = NoError
    /\ items' = NoItems
    /\ UNCHANGED <<registry, gen, reg>>

\* the buffers the two Parsers are run on: objects with class data
Families2 == {ClassData0, ClassData1}

Init2 ==
    /\ gen \in Families2
    /\ buf = <<>>
    /\ eof = FALSE
    /\ pos = 0
    /\ nextHandle = HandleBase
    /\ handles = NoHandles
    /\ contents = <<>>
    /\ magic = -1
    /\ version = -1
    /\ heap = <<>>
    /\ stack = <<[op |-> "magic"]>>
    /\ ret = Undef
    /\ status = "running"
    /\ err = NoError
    /\ registry = gen.registry
    /\ phase = 1
    /\ first = None
    /\ reg = None
    /\ items = NoItems

\* the handlers these buffers reach, register() and the second Parser
Next2 ==
    \/ Magic
    \/ Version
    \/ Loop
    \/ Push
    \/ Content
    \/ ParseNull
    \/ ParseEndBlockData
    \/ ParseString
    \/ Annotations
    \/ AnnotationsLoop
    \/ ParseClassDesc
    \/ FieldLoop
    \/ ClassAnnotations
    \/ ClassSuper
    \/ ParseObject
    \/ ObjectClass
    \/ ClassData
    \/ Values
    \/ DataAnnotations
    \/ Register
    \/ Restart

Spec2 == Init2 /\ [][Next2]_vars

----------------------------------------------------------------------------
(* The objects of a finished parse *)

Done == status = "done"
ObjectIds == {i \in DOMAIN heap : heap[i].k = "object"}

----------------------------------------------------------------------------
(* Properties *)

\* C1: when the constructor returns without an error, the cursor stands
\* exactly at the end of the buffer: pos = len(B), never beyond it, also
\* when the last item is a block of data whose declared length exceeds the
\* bytes that remain.
C1_PosAtEnd == Done => pos = Len(buf)

\* C2: no element of the top-level result sequence is the endBlock
\* sentinel.
C2_NoEndBlockInContents == \A i \in DOMAIN contents : contents[i] # EndBlock

\* C3: in every reachable state the allocated handle indices are exactly
\* the consecutive integers 0x7e0000 .. nextHandle - 1: the first
\* allocation gets 0x7e0000, each later one the next index, none is skipped.
C3_HandlesDense ==
    /\ nextHandle >= HandleBase
    /\ DOMAIN handles = HandleBase..(nextHandle - 1)

\* a finished parse that allocated with newHandle (a class descriptor, a
\* string) and with newDeferredHandle (an enum)
C3_Witness ==
    /\ Done
    /\ nextHandle = HandleBase + 3
    /\ \E i \in DOMAIN heap : heap[i].k = "enum"

\* the super chain of the class of object o, most derived first
ChainOf(o) == SuperChain(heap, heap[o].class, {}).chain

\* the group classdata returned for class id c of object o
GroupIdx(o, c) == {i \in DOMAIN heap[o].groups : heap[o].groups[i].cls = c}
GroupOf(o, c) == heap[o].groups[CHOOSE i \in GroupIdx(o, c) : TRUE].fields

\* the field names of the groups of o, and the positions in the chain of o
\* of the classes whose group holds n
GroupNames(o) ==
    UNION {DOMAIN heap[o].groups[i].fields : i \in DOMAIN heap[o].groups}
Holders(o, n) ==
    {j \in DOMAIN ChainOf(o) :
        /\ IsClassDesc(heap, ChainOf(o)[j])
        /\ GroupIdx(o, ChainOf(o)[j].id) # {}
        /\ n \in DOMAIN GroupOf(o, ChainOf(o)[j].id)}
MostDerived(o, n) == CHOOSE j \in Holders(o, n) : \A k \in Holders(o, n) : j <= k

\* O[n] is the value of the most derived class whose group holds n
FlatIsMostDerived(o) ==
    \A n \in GroupNames(o) :
        /\ Holders(o, n) # {}
        /\ MapHas(heap[o].props, n)
        /\ heap[o].props[n] = GroupOf(o, ChainOf(o)[MostDerived(o, n)].id)[n]

\* where several classes of the chain hold n, each extends[c.name][n] is
\* the value of c's own group
ExtendsKeepOwn(o) ==
    \A n \in GroupNames(o) :
        Cardinality(Holders(o, n)) > 1 =>
            \A j \in Holders(o, n) :
                LET c == ChainOf(o)[j].id IN
                /\ MapHas(heap[o].extends, heap[c].name)
                /\ MapHas(heap[o].extends[heap[c].name], n)
                /\ heap[o].extends[heap[c].name][n] = GroupOf(o, c)[n]

\* no two classes of the chain of o have the same name
DistinctNames(o) ==
    \A j, k \in DOMAIN ChainOf(o) :
        (/\ j # k
         /\ IsClassDesc(heap, ChainOf(o)[j])
         /\ IsClassDesc(heap, ChainOf(o)[k]))
            => heap[ChainOf(o)[j].id].name # heap[ChainOf(o)[k].id].name

\* C4 (as stated): for every decoded object O and field name n, O[n] is the
\* value in the group of the most derived class that holds n, and where
\* several classes hold n each extends[ancestor][n] keeps its own value.
C4_Stated ==
    Done => \A o \in ObjectIds : FlatIsMostDerived(o) /\ ExtendsKeepOwn(o)

\* C4 (amended): for every decoded object O and field name n, O[n] is the
\* value in the group of the most derived class that holds n; where several
\* classes hold n, each extends[ancestor][n] keeps its own value provided the
\* classes of O's chain have pairwise distinct names.
C4_FlattenMostDerived ==
    Done => \A o \in ObjectIds :
        /\ FlatIsMostDerived(o)
        /\ DistinctNames(o) => ExtendsKeepOwn(o)

\* an object of a class B whose super A declares the same field a: the two
\* groups hold different values and O.a is the value of B's group
C4_Witness ==
    /\ Done
    /\ \E o \in ObjectIds :
         /\ Len(heap[o].groups) = 2
         /\ DistinctNames(o)
         /\ Cardinality(Holders(o, FieldA)) = 2
         /\ heap[o].groups[1].fields[FieldA] # heap[o].groups[2].fields[FieldA]
         /\ heap[o].props[FieldA] = heap[o].groups[2].fields[FieldA]

\* C5: for every decoded object O, extends[c.name] exists for every class c
\* of the super chain of O.class, class data is read oldest ancestor first,
\* and the group of a class with flags low nibble 0x02 holds exactly the
\* names of the fields that class declares.
C5_ExtendsCoverChain ==
    Done => \A o \in ObjectIds :
        LET sc == SuperChain(heap, heap[o].class, {})
            gs == heap[o].groups
        IN /\ sc.ok
           /\ \A j \in DOMAIN sc.chain :
                 /\ IsClassDesc(heap, sc.chain[j])
                 /\ MapHas(heap[o].extends, heap[sc.chain[j].id].name)
           /\ Len(gs) = Len(sc.chain)
           /\ \A i \in DOMAIN gs :
                 /\ Obj(gs[i].cls) = sc.chain[Len(gs) + 1 - i]
                 /\ LowNibble(heap[gs[i].cls].flags) = 2 =>
                        DOMAIN gs[i].fields =
                            {heap[gs[i].cls].fields[f].name :
                                f \in DOMAIN heap[gs[i].cls].fields}

\* nothing was decoded and no handle allocated
NothingDecoded ==
    /\ Total(items) = 0
    /\ contents = <<>>
    /\ handles = NoHandles
    /\ nextHandle = HandleBase
    /\ heap = <<>>

Prologue == U16(StreamMagic) \o U16(StreamVersion)

\* C6: the prologue is checked before any content is decoded: a buffer whose
\* first u16 is not 0xaced fails with the bad-magic error without the version
\* being read, one with the magic and a second u16 other than 5 fails with the
\* unsupported-version error, in both cases nothing is decoded and no handle
\* allocated; the buffer AC ED 00 05 yields an empty sequence and no error.
C6_PrologueFirst ==
    /\ (Len(buf) >= 2 /\ UInt16At(buf, 0) # StreamMagic) =>
          /\ status = "error"
          /\ err.msg = MsgMagic
          /\ version = -1
          /\ pos = 2
          /\ NothingDecoded
    /\ (Len(buf) >= 4 /\ UInt16At(buf, 0) = StreamMagic
                      /\ UInt16At(buf, 2) # StreamVersion) =>
          /\ status = "error"
          /\ err.msg = MsgVersion
          /\ pos = 4
          /\ NothingDecoded
    /\ ~NothingDecoded => (magic = StreamMagic /\ version = StreamVersion)
    /\ (eof /\ buf = Prologue) =>
          /\ Done
          /\ contents = <<>>
          /\ err = NoError

\* a buffer with the magic and version 4 was refused
C6_Witness ==
    /\ status = "error"
    /\ err.msg = MsgVersion
    /\ buf = U16(StreamMagic) \o U16(StreamVersion - 1)

\* C7: a Reference item whose 32-bit index is not allocated (below 0x7e0000
\* or at or above nextHandle) makes the parse fail; it never yields a value.
C7_UnallocatedReferenceFails ==
    [][(/\ Running("parseReference")
        /\ Len(buf') >= pos + 4
        /\ \/ Int32At(buf', pos) < HandleBase
           \/ Int32At(buf', pos) >= nextHandle)
          => status' = "error"]_vars

\* C8: every decode error, of every kind, carries the buffer position at
\* which it occurred and a reference to the input buffer.
C8_ErrorsCarryPosition ==
    status = "error" => {"buf", "pos"} \subseteq err.props

\* C9: for every content type byte outside 0x70..0x7e (0x7f and every byte
\* below 0x70 included), decoding a content item fails with the
\* unknown-type-code error.
C9_UnknownTypeCode ==
    [][(/\ Running("content")
        /\ Len(buf') > pos
        /\ \/ buf'[pos + 1] < TypeCodeBase
           \/ buf'[pos + 1] > TypeCodeBase + 14)
          => (status' = "error" /\ err'.msg = MsgUnknownType)]_vars

\* the type bytes 0x79, 0x7b and 0x7d and the kinds the stream format
\* gives them
UnsupportedBytes == {TypeCodeBase + 9, TypeCodeBase + 11, TypeCodeBase + 13}
UnsupportedName(b) ==
    CASE b = TypeCodeBase + 9 -> "Reset"
      [] b = TypeCodeBase + 11 -> "Exception"
      [] b = TypeCodeBase + 13 -> "ProxyClassDesc"

\* C10: a content item of kind Reset (0x79), Exception (0x7b) or
\* ProxyClassDesc (0x7d), at a position whose allow-list permits the kind or
\* that has none, fails with the unsupported-kind error; only the type byte
\* has been consumed and no handle has been allocated.
C10_UnsupportedKinds ==
    [][(/\ Running("content")
        /\ Len(buf') > pos
        /\ buf'[pos + 1] \in UnsupportedBytes
        /\ Top.restricted => UnsupportedName(buf'[pos + 1]) \in Top.allowed)
          => (/\ status' = "error"
              /\ err'.msg = MsgNoHandler
              /\ err'.arg = UnsupportedName(buf'[pos + 1])
              /\ pos' = pos + 1
              /\ nextHandle' = nextHandle
              /\ handles' = handles)]_vars

\* a ProxyClassDesc where a class descriptor is expected was refused
C10_Witness ==
    /\ status = "error"
    /\ err.msg = MsgNoHandler
    /\ err.arg = "ProxyClassDesc"
    /\ items.Class = 1
    /\ Total(items) = 1
    /\ pos = Len(Prologue) + 2
    /\ nextHandle = HandleBase

\* the frames that consume the value of a class-descriptor position: the
\* class of an Object, Array, Enum or Class item and the super of a ClassDesc
ClassDescConsumers ==
    {"objectClass", "arrayClass", "enumClass", "classHandle", "classSuper"}
AtClassDescPosition ==
    /\ Running("content")
    /\ Len(stack) >= 2
    /\ stack[2].op \in ClassDescConsumers

\* the kind the stream format gives a type byte of 0x70..0x7e
KindOf(b) == names[b - TypeCodeBase + 1]

\* C11: at every class-descriptor position a content kind outside
\* {ClassDesc, ProxyClassDesc, Null, Reference} fails with the
\* not-allowed-here error before the kind's handler runs: the handle table
\* and nextHandle are unchanged and only the type byte has been consumed.
C11_ClassDescPositions ==
    [][(/\ AtClassDescPosition
        /\ Len(buf') > pos
        /\ buf'[pos + 1] \in TypeCodeBase..(TypeCodeBase + 14)
        /\ KindOf(buf'[pos + 1]) \notin
               {"ClassDesc", "ProxyClassDesc", "Null", "Reference"})
          => (/\ status' = "error"
              /\ err'.msg = MsgNotAllowed
              /\ err'.arg = KindOf(buf'[pos + 1])
              /\ pos' = pos + 1
              /\ nextHandle' = nextHandle
              /\ handles' = handles)]_vars

\* a String where the class of an Array is expected was refused
C11_Witness ==
    /\ status = "error"
    /\ err.msg = MsgNotAllowed
    /\ err.arg = "String"
    /\ items.Array = 1
    /\ Total(items) = 1
    /\ pos = Len(Prologue) + 2
    /\ nextHandle = HandleBase

ClassIds == {i \in DOMAIN heap : heap[i].k = "class"}

\* C12: every class descriptor of a successful parse has a flags low nibble
\* in {0x02, 0x03, 0x04, 0x0c}: a descriptor with any other low nibble makes
\* the parse fail, also when no object of that class is read.
C12_FlagsChecked ==
    Done => \A c \in ClassIds : LowNibble(heap[c].flags) \in {2, 3, 4, 12}

\* the last value on the super chain of class c
ChainEnd(c) ==
    LET ch == SuperChain(heap, Obj(c), {}).chain IN ch[Len(ch)]

\* C13: following the super links of any class descriptor reaches null
\* after finitely many steps: no class descriptor is its own ancestor.
C13_SuperChainEnds ==
    Done => \A c \in ClassIds :
        /\ SuperChain(heap, Obj(c), {}).ok
        /\ IsClassDesc(heap, ChainEnd(c))
        /\ heap[ChainEnd(c).id].super = Null

\* a finished parse with a class descriptor whose super is itself
C13_SelfSuper ==
    /\ Done
    /\ \E c \in ClassIds : heap[c].super = Obj(c)

\* C14: every field of type L or [ in a class descriptor of a successful
\* parse has a className that is a non-empty string: Null or any other
\* kind in that position is rejected.
C14_ClassNameIsString ==
    Done => \A c \in ClassIds : \A f \in DOMAIN heap[c].fields :
        heap[c].fields[f].type \in ContentTypes =>
            /\ IsStr(heap[c].fields[f].className)
            /\ heap[c].fields[f].className.s # <<>>

\* a finished parse with a well-formed descriptor except for a field of
\* type L whose className is null
C14_NullClassName ==
    /\ Done
    /\ \E c \in ClassIds : \E f \in DOMAIN heap[c].fields :
         /\ heap[c].fields[f].type = ChL
         /\ heap[c].fields[f].className = Null
         /\ heap[c].flags = 2
         /\ heap[c].super = Null

ArrayIds == {i \in DOMAIN heap : heap[i].k = "array"}

\* the values the reader of element type c returns
ReadBy(c, v) ==
    CASE c \in {ChB, ChI, ChS} -> v.t = "number"
      [] c = ChC -> v.t = "string"
      [] c = ChD -> v.t = "double"
      [] c = ChF -> v.t = "float"
      [] c = ChJ -> v.t = "long"
      [] c = ChZ -> v.t = "boolean"
      [] c \in ContentTypes -> TRUE
      [] OTHER -> FALSE

\* C15: for every decoded array A, the name of A.class begins with '[', the
\* number of elements of A is the length read from the wire, and each
\* element was read by the reader the second character of the name selects.
C15_ArrayShape ==
    Done => \A a \in ArrayIds :
        /\ IsClassDesc(heap, heap[a].class)
        /\ LET name == heap[heap[a].class.id].name IN
           /\ Len(name) >= 2
           /\ name[1] = ChBracket
           /\ Len(heap[a].elems) = heap[a].length
           /\ \A i \in DOMAIN heap[a].elems : ReadBy(name[2], heap[a].elems[i])

\* a decoded array of two ints whose class is named "AI"
C15_NoBracket ==
    /\ Done
    /\ \E a \in ArrayIds :
         /\ IsClassDesc(heap, heap[a].class)
         /\ heap[heap[a].class.id].name = NameA \o <<ChI>>
         /\ Len(heap[a].elems) = 2

Over == status \in {"done", "error"}

\* C16: a second Parser on the same buffer ends as the first did, with the
\* same error or with equal contents, whatever was registered in between.
C16_SameOutcome == (phase = 2 /\ Over) => Outcome = first.outcome

\* the second Parser of an object with a write method applied a
\* post-processor registered after the first Parser ended
C16_Diverged ==
    /\ phase = 2
    /\ Done
    /\ first.outcome.status = "done"
    /\ reg # None
    /\ contents = first.outcome.contents
    /\ heap # first.outcome.heap

\* the class descriptors on the super chain of the value v
ChainClasses(v) ==
    LET ch == SuperChain(heap, v, {}).chain IN
    {ch[j] : j \in {k \in DOMAIN ch : IsClassDesc(heap, ch[k])}}

\* C17: the handle slot of an Enum item is reserved once its class
\* descriptor is decoded completely (every descriptor of the chain already
\* has a smaller handle) and before the constant name is decoded (whatever
\* that item allocates gets a larger index); once the item is decoded the
\* slot holds the enum constant, whose text is the decoded name and whose
\* class is that descriptor, and a later Reference to the index returns it.
C17_EnumHandle ==
    [][/\ Running("enumClass") =>
            LET r == stack'[2].idx IN
            /\ r \notin DOMAIN handles
            /\ handles' = SetHandle(handles, r, Null)
            /\ nextHandle' = r + 1
            /\ stack'[1].op = "content"
            /\ stack'[2].clazz = ret
            /\ \A c \in ChainClasses(ret) :
                   \E i \in DOMAIN handles : i < r /\ handles[i] = c
       /\ Running("enumConstant") =>
            LET e == handles'[Top.idx] IN
            /\ handles[Top.idx] = Null
            /\ handles' = SetHandle(handles, Top.idx, e)
            /\ IsObj(e)
            /\ heap'[e.id].k = "enum"
            /\ heap'[e.id].class = Top.clazz
            /\ IsStr(ret) => heap'[e.id].text = ret
            /\ ret' = e
            /\ nextHandle' = nextHandle
       /\ (/\ Running("parseReference")
           /\ Len(buf') >= pos + 4
           /\ Int32At(buf', pos) \in DOMAIN handles
           /\ IsObj(handles[Int32At(buf', pos)])
           /\ heap[handles[Int32At(buf', pos)].id].k = "enum") =>
              ret' = handles[Int32At(buf', pos)]]_vars

\* an enum constant "a" of a class, stored between the handle of its class
\* and the handle of its name, and returned again by a Reference to it
C17_Witness ==
    /\ Done
    /\ Len(contents) = 2
    /\ contents[1] = contents[2]
    /\ IsObj(contents[1])
    /\ heap[contents[1].id].k = "enum"
    /\ heap[contents[1].id].text = Str(FieldA)
    /\ IsClassDesc(heap, heap[contents[1].id].class)
    /\ handles[HandleBase] = heap[contents[1].id].class
    /\ handles[HandleBase + 1] = contents[1]
    /\ handles[HandleBase + 2] = Str(FieldA)

\* the names of the fields class c declares
Declared(c) == {c.fields[f].name : f \in DOMAIN c.fields}

\* a post-processor is registered under exactly the name and the
\* serialVersionUID of class c
RegisteredFor(c) ==
    \E k \in DOMAIN registry :
        /\ Len(k) = Len(c.name) + 17
        /\ SubSeq(k, 1, Len(c.name)) = c.name
        /\ k[Len(c.name) + 1] = ChAt
        /\ SubSeq(k, Len(c.name) + 2, Len(k)) = c.serialVersionUID

\* the group that obj.extends holds for the class being read, and whether
\* the flattened view of the object holds every entry of the map g
StoredGroup == heap'[Top.obj].extends[heap[Head(Top.chain).id].name]
Flattened(g) ==
    status' = "running" =>
        \A n \in DOMAIN g :
            MapHas(heap'[Top.obj].props, n) /\ heap'[Top.obj].props[n] = g[n]

\* C18: class data of a class with flags low nibble 0x03 is the declared
\* field values followed by one annotation block stored under "@"; a
\* post-processor is called if and only if the nibble is 0x03 and one is
\* registered under exactly (name, serialVersionUID), with the class, the
\* field map and the annotation items, and the map it returns replaces the
\* group in extends and in the flattened view; it is never called for the
\* nibbles 0x02 and 0x0c.
C18_PostProcessor ==
    [][/\ Running("dataAnnotations") =>
            LET c == heap[Head(Top.chain).id]
                raw == MapSet(Top.res, StrAt, ret)
            IN /\ LowNibble(c.flags) \in {3, 12}
               /\ ret.t = "list"
               /\ LowNibble(c.flags) = 3 =>
                     /\ DOMAIN Top.res = Declared(c)
                     /\ IF RegisteredFor(c)
                        THEN /\ StoredGroup =
                                  PostProc(registry[PostProcKey(c)], c, raw, ret)
                             /\ Flattened(StoredGroup)
                        ELSE /\ StoredGroup = raw
                             /\ Flattened(raw)
               /\ LowNibble(c.flags) = 12 =>
                     /\ StoredGroup = MapSet(EmptyMap, StrAt, ret)
                     /\ Flattened(StoredGroup)
       /\ (/\ Running("values")
           /\ Top.i > Len(heap[Head(Top.chain).id].fields)
           /\ LowNibble(heap[Head(Top.chain).id].flags) = 2) =>
              /\ StoredGroup = Top.vals
              /\ Flattened(Top.vals)]_vars

\* an object of a registered class with a write method: the map of the
\* post-processor is its group and its flattened view
C18_Witness ==
    /\ Done
    /\ \E o \in ObjectIds :
         LET c == heap[heap[o].class.id] IN
         /\ LowNibble(c.flags) = 3
         /\ RegisteredFor(c)
         /\ Len(c.fields) = 1
         /\ DOMAIN heap[o].extends[c.name] = {StrList}
         /\ heap[o].props = heap[o].extends[c.name]

\* the code units of the hexadecimal characters, and the strings of exactly
\* 16 of them
HexChars == (48..57) \cup (65..70) \cup (97..102)
IsHex16(uid) == Len(uid) = 16 /\ \A i \in 1..16 : uid[i] \in HexChars

\* C19: register(className, serialVersionUID, fn) accepts a
\* serialVersionUID only if it is exactly 16 hexadecimal characters and
\* otherwise throws and leaves the registry as it was; once it succeeded,
\* the class data of a class with a write method finds fn for exactly the
\* registered name and UID (the registry held before stays as it was).
C19_RegisterValidates ==
    [][/\ reg' # reg =>
            IF IsHex16(reg'.uid)
            THEN /\ ~reg'.threw
                 /\ registry' =
                      MapSet(registry, reg'.name \o StrAt \o reg'.uid, reg'.fn)
            ELSE /\ reg'.threw
                 /\ registry' = registry
       /\ (/\ Running("dataAnnotations")
           /\ LowNibble(heap[Head(Top.chain).id].flags) = 3) =>
              LET c == heap[Head(Top.chain).id] IN
              Invokes(c) <=>
                 \/ PostProcKey(c) \in DOMAIN gen.registry
                 \/ /\ reg # None
                    /\ ~reg.threw
                    /\ reg.name = c.name
                    /\ reg.uid = c.serialVersionUID]_vars

\* register() has accepted a serialVersionUID of 16 characters none of
\* which is a hexadecimal digit, and the registry holds its key
C19_NonHexAccepted ==
    /\ reg # None
    /\ ~reg.threw
    /\ ~IsHex16(reg.uid)
    /\ MapHas(registry, reg.name \o StrAt \o reg.uid)

\* the containers whose components are being decoded: the class descriptor,
\* object or array named by a frame of the stack st
ContainerKeys == {"cls", "obj", "arr"}
Containers(st) ==
    {st[i][k] : <<i, k>> \in {p \in (DOMAIN st) \X ContainerKeys :
                                p[2] \in DOMAIN st[p[1]]}}

\* the indices of the handle table h that hold the heap object id
IndicesOf(h, id) == {idx \in DOMAIN h : h[idx] = Obj(id)}

\* every container under decoding is in the handle table, and it got there
\* with none of its components decoded
StoredBeforeComponents ==
    /\ \A id \in Containers(stack') : IndicesOf(handles', id) # {}
    /\ \A id \in (DOMAIN heap') \ (DOMAIN heap) :
         (heap'[id].k # "enum" /\ status' = "running") =>
             /\ nextHandle \in IndicesOf(handles', id)
             /\ nextHandle' = nextHandle + 1
             /\ heap'[id].k = "class" =>
                   /\ heap'[id].fields = <<>>
                   /\ heap'[id].annotations = Undef
                   /\ heap'[id].super = Undef
             /\ heap'[id].k = "object" =>
                   heap'[id].extends = EmptyMap /\ heap'[id].props = EmptyMap
             /\ heap'[id].k = "array" => heap'[id].elems = <<>>

\* a Reference decoded inside the components of a container, to the index
\* of that container, returns the container
SelfReferenceResolves ==
    (Running("parseReference") /\ status' = "running" /\ pos' = pos + 4) =>
        \A id \in Containers(stack) :
            Int32At(buf', pos) \in IndicesOf(handles, id) => ret' = Obj(id)

\* C20 as stated: every value that gets a handle, enum constants apart, is
\* in the handle table before any of its components is decoded: a class
\* descriptor before flags, fields, annotations and super, an object before
\* its class data, an array before its length and elements, and the value
\* of a Class item before its nested descriptor is decoded; a Reference to
\* the container's own index inside its components returns the container.
C20_Stated ==
    [][/\ StoredBeforeComponents
       /\ SelfReferenceResolves
       /\ Running("parseClass") =>
             nextHandle \in DOMAIN handles' /\ nextHandle' = nextHandle + 1]_vars

\* C20, amended: as stated for class descriptors, objects and arrays; a
\* Class item takes its handle only once its nested descriptor is decoded,
\* and the slot holds what that descriptor position produced.
C20_HandleBeforeComponents ==
    [][/\ StoredBeforeComponents
       /\ SelfReferenceResolves
       /\ Running("parseClass") => UNCHANGED <<handles, nextHandle>>
       /\ Running("classHandle") =>
             /\ handles' = [i \in (DOMAIN handles) \cup {nextHandle} |->
                              IF i = nextHandle THEN ret ELSE handles[i]]
             /\ nextHandle' = nextHandle + 1]_vars

\* a Class item whose nested descriptor has a Reference to its own index as
\* its super: the descriptor is its own super, and the handle of the Class
\* item follows the handle of the descriptor and holds the descriptor
C20_Witness ==
    /\ Done
    /\ \E i \in DOMAIN handles :
         /\ IsClassDesc(heap, handles[i])
         /\ heap[handles[i].id].super = handles[i]
         /\ i + 1 \in DOMAIN handles
         /\ handles[i + 1] = handles[i]

\* the class whose class data is being read, and the low nibble of its flags
DataClass == heap[Head(Top.chain).id]
DataNibble == LowNibble(DataClass.flags)

\* C21: the class data of a class with flags low nibble 0x0c is one
\* annotation block and nothing else: no value of a declared field is read
\* (the cursor stays where it is until the annotation block begins) and the
\* group has the single key "@" mapped to the annotation items; for the
\* low nibble 0x04 reading class data fails with "Can't parse version 1
\* external content" without consuming a byte.
C21_ExternalizableData ==
    [][/\ (/\ Running("classdata")
           /\ IsClassDesc(heap, Head(Top.chain))
           /\ DataNibble = 12) =>
             /\ pos' = pos /\ buf' = buf
             /\ status' = "running"
             /\ stack'[1].op = "annotations"
             /\ stack'[2].op = "dataAnnotations"
             /\ stack'[2].res = EmptyMap
       /\ (Running("dataAnnotations") /\ DataNibble = 12) =>
             /\ pos' = pos /\ buf' = buf
             /\ Top.res = EmptyMap
             /\ ret.t = "list"
             /\ DOMAIN StoredGroup = {StrAt}
             /\ StoredGroup[StrAt] = ret
       /\ (Running("values") /\ status' = "running") => DataNibble \in {2, 3}
       /\ (/\ Running("classdata")
           /\ IsClassDesc(heap, Head(Top.chain))
           /\ DataNibble = 4) =>
             /\ pos' = pos /\ buf' = buf
             /\ status' = "error"
             /\ err'.msg = MsgExternal]_vars

\* a decoded object of an externalizable class that declares a field: its
\* group is the annotation block alone and the field has no value
C21_Witness ==
    /\ Done
    /\ \E o \in ObjectIds :
         LET c == heap[heap[o].class.id] IN
         /\ LowNibble(c.flags) = 12
         /\ Len(c.fields) = 1
         /\ c.fields[1].name = FieldA
         /\ DOMAIN heap[o].extends[c.name] = {StrAt}
         /\ heap[o].extends[c.name][StrAt].t = "list"
         /\ ~MapHas(heap[o].props, FieldA)

\* class data of a class with the low nibble 0x04 was refused
C21_ExternalRefused ==
    /\ status = "error"
    /\ err.msg = MsgExternal

EnumIds == {i \in DOMAIN heap : heap[i].k = "enum"}

\* C22: the value a class-descriptor position hands to its consumer (the
\* class of an object, array, enum or Class item, the super of a class
\* descriptor) is a class descriptor or null, also when the position holds
\* a Reference: never a string, an object, an array, an enum or undefined.
C22_ClassDescOrNull ==
    (status = "running" /\ stack # <<>> /\ Top.op \in ClassDescConsumers) =>
        (ret = Null \/ IsClassDesc(heap, ret))

\* a decoded enum constant whose class descriptor has a string as its super
C22_StringAsSuper ==
    /\ Done
    /\ \E e \in EnumIds :
         /\ IsClassDesc(heap, heap[e].class)
         /\ IsStr(heap[heap[e].class.id].super)

\* C23: constructing a Parser terminates with a result or a decode error,
\* because every iteration of the top-level loop, of the annotation loop
\* and of the array element loop calls content or a primitive reader,
\* each of which consumes at least one byte of the buffer or fails, and
\* because the recursion of recursiveClassData moves up a super chain that
\* is finite.
C23_Terminates ==
    [][/\ Running("content") => (status' = "error" \/ pos' = pos + 1)
       /\ (Running("loop") /\ status' = "running") =>
             stack'[1].op = "content"
       /\ (Running("annotationsLoop") /\ ret # EndBlock) =>
             stack'[1].op = "content"
       /\ (Running("arrayElems") /\ Top.i < Top.len) =>
             \/ status' = "error"
             \/ pos' > pos
             \/ stack'[1].op = "content"
       /\ (Running("objectClass") /\ IsClassDesc(heap, ret)) =>
             /\ SuperChain(heap, ret, {}).ok
             /\ ~(status' = "error" /\ err'.msg = MsgRangeError)]_vars

\* the recursion of recursiveClassData over a class descriptor that is its
\* own super ended when the call stack was exhausted
C23_StackExhausted ==
    /\ status = "error"
    /\ err.msg = MsgRangeError
    /\ err.arg = "stack"
    /\ \E c \in ClassIds : heap[c].super = Obj(c)

====
